---------------------------- MODULE Spec2Model ----------------------------
(***************************************************************************)
(* Model of the hash-comparison benchmark harness (benchmark.py, main.py,  *)
(* visualize.py).                                                          *)
(*                                                                         *)
(* A byte is a small natural number, a file content a sequence of bytes,   *)
(* a file name a sequence of one-character strings, a hex digest a         *)
(* sequence of hex digits (0..15), a bit string a sequence of 0/1.         *)
(*                                                                         *)
(* The hash library (hashlib) is outside the repository.  It is modelled   *)
(* as an incremental hasher whose state absorbs the bytes it is fed, one   *)
(* at a time, and whose hexdigest has a fixed number of hex digits per     *)
(* algorithm.  Digest widths and the block size are scaled down:           *)
(*   CHUNK_SIZE is 8192 in the source, DigestHexLen is 64/64/128 there.    *)
(* BENCHMARK_ITERATIONS is 30 in the source.                               *)
(*                                                                         *)
(* The file system does not change under a run except by the run's own     *)
(* writes; an open or read may fail (at most MaxFaults times in a run).    *)
(* The values a measured iteration samples (elapsed time, peak memory,     *)
(* CPU percent) come from the environment; in the runs of the scripts the  *)
(* samples and rows carry their identity (file, algorithm, iteration       *)
(* number) only.  The reduction step is modelled on its own, on sample     *)
(* sets that carry their elapsed times (SpecReduce).                       *)
(***************************************************************************)
EXTENDS Integers, Sequences, FiniteSets, TLC

(***************************************************************************)
(* Bounds of the model and program constants                               *)
(***************************************************************************)
\* longest file content drawn for a direct call of a function
MaxLen == 3
\* most files os.listdir returns for the dataset directory
MaxFiles == 2
\* most I/O errors the environment raises during one run
MaxFaults == 1
\* benchmark.py:32 (8192 there; scaled so that contents span several blocks)
CHUNK_SIZE == 2
\* benchmark.py:31 (30 there; scaled)
BENCHMARK_ITERATIONS == 3
\* benchmark.py:30
WARMUP_ITERATIONS == 2
\* most samples of a sample set drawn for the reduction step (the configured
\* iteration count of the call that collected them)
MaxSamples == 3
\* largest elapsed time of a sample, in ns
MaxNs == 2
\* benchmark.py:148 (1e9 there; scaled so that the exact arithmetic of the
\* reduction stays within the integers of the checker)
NS_PER_SEC == 1000
\* benchmark.py:157
BYTES_PER_MIB == 1024 * 1024

Byte == {0, 1}

\* benchmark.py:21-25, in the dict's insertion order
AlgoOrder == <<"SHA-256", "SHA3-256", "BLAKE2">>
ALGORITHMS == {AlgoOrder[i] : i \in 1..Len(AlgoOrder)}
\* an identifier that is no key of ALGORITHMS
UnknownAlgorithm == "MD5"
AlgorithmIds == ALGORITHMS \cup {UnknownAlgorithm}

(***************************************************************************)
(* Small helpers on sequences                                              *)
(***************************************************************************)
Min(a, b) == IF a <= b THEN a ELSE b

RECURSIVE Pow(_, _)
Pow(b, e) == IF e = 0 THEN 1 ELSE b * Pow(b, e - 1)

RECURSIVE Concat(_)
Concat(blocks) ==
    IF blocks = <<>> THEN <<>> ELSE Head(blocks) \o Concat(Tail(blocks))

RECURSIVE SeqsUpTo(_, _)
SeqsUpTo(S, n) ==
    IF n = 0 THEN {<<>>}
    ELSE LET shorter == SeqsUpTo(S, n - 1)
         IN  shorter \cup {Append(s, x) : s \in shorter, x \in S}

(***************************************************************************)
(* The external hash library: hashlib.<alg>() / update / hexdigest          *)
(***************************************************************************)
\* hex digits of a digest (64, 64 and 128 in hashlib)
DigestHexLen(algorithm) ==
    CASE algorithm = "SHA-256"  -> 2
      [] algorithm = "SHA3-256" -> 2
      [] algorithm = "BLAKE2"   -> 4

Seed(algorithm) ==
    CASE algorithm = "SHA-256"  -> 7
      [] algorithm = "SHA3-256" -> 11
      [] algorithm = "BLAKE2"   -> 13

\* ALGORITHMS[algorithm]()
NewHasher(algorithm) == [alg |-> algorithm, h |-> Seed(algorithm)]

RECURSIVE Absorb(_, _, _)
Absorb(h, block, modulus) ==
    IF block = <<>> THEN h
    ELSE Absorb((h * 33 + Head(block) + 1) % modulus, Tail(block), modulus)

\* hasher.update(block)
Update(hasher, block) ==
    [hasher EXCEPT !.h = Absorb(hasher.h, block, Pow(16, DigestHexLen(hasher.alg)))]

RECURSIVE ToHex(_, _)
ToHex(n, width) ==
    IF width = 0 THEN <<>> ELSE Append(ToHex(n \div 16, width - 1), n % 16)

\* hasher.hexdigest()
HexDigest(hasher) == ToHex(hasher.h, DigestHexLen(hasher.alg))

(***************************************************************************)
(* A file at a path: whether it exists, and its content                     *)
(***************************************************************************)
File(data) == [exists |-> TRUE, data |-> data]
MissingFile == [exists |-> FALSE, data |-> <<>>]

\* what a call gives back: the exception it raises ("none": it returns),
\* its value, the file-system operations it performed, and what it fed to
\* the hasher
Outcome(exc, value, touched, fed) ==
    [exc |-> exc, value |-> value, touched |-> touched, fed |-> fed]

(***************************************************************************)
(* benchmark.py:88-94 compute_hash                                          *)
(***************************************************************************)
\* Read that gives nothing when fewer than size bytes are left
Read_FullBlocksOnly(data, pos, size) ==
    IF pos + size <= Len(data) THEN SubSeq(data, pos + 1, pos + size) ELSE <<>>

\* f.read(CHUNK_SIZE) at file position pos (0-based)
Read(data, pos, size) == SubSeq(data, pos + 1, Min(pos + size, Len(data)))

\* for chunk in iter(lambda: f.read(size), b''): hasher.update(chunk)
RECURSIVE ReadLoop(_, _, _, _, _)
ReadLoop(data, pos, size, hasher, fed) ==
    LET chunk == Read(data, pos, size)
    IN  IF chunk = <<>> THEN [hasher |-> hasher, fed |-> fed]
        ELSE ReadLoop(data, pos + Len(chunk), size,
                      Update(hasher, chunk), Append(fed, chunk))

\* the body of compute_hash once the hasher is built: open, read loop, digest
HashFile(file, algorithm, fault) ==
    IF ~file.exists \/ fault
    THEN Outcome("OSError", <<>>, {"open"}, <<>>)
    ELSE LET r == ReadLoop(file.data, 0, CHUNK_SIZE, NewHasher(algorithm), <<>>)
         IN  Outcome("none", HexDigest(r.hasher), {"open", "read"}, r.fed)

\* compute_hash that opens the file before it builds the hasher
compute_hash_OpenFirst(file, algorithm, fault) ==
    IF ~file.exists \/ fault
    THEN Outcome("OSError", <<>>, {"open"}, <<>>)
    ELSE IF algorithm \notin ALGORITHMS
    THEN Outcome("KeyError", <<>>, {"open"}, <<>>)
    ELSE HashFile(file, algorithm, fault)

\* benchmark.py:88-94
compute_hash(file, algorithm, fault) ==
    IF algorithm \notin ALGORITHMS
    THEN Outcome("KeyError", <<>>, {}, <<>>)
    ELSE HashFile(file, algorithm, fault)

\* main.py:10-18 compute_hash
main_compute_hash(file, algorithm, fault) ==
    IF algorithm \notin ALGORITHMS
    THEN Outcome("ValueError", <<>>, {}, <<>>)
    ELSE HashFile(file, algorithm, fault)

\* benchmark.py:97-101 compute_hash_bytes
compute_hash_bytes(data, algorithm) ==
    IF algorithm \notin ALGORITHMS
    THEN Outcome("KeyError", <<>>, {}, <<>>)
    ELSE Outcome("none", HexDigest(Update(NewHasher(algorithm), data)), {}, <<data>>)

(***************************************************************************)
(* benchmark.py:171-198 the avalanche test                                  *)
(***************************************************************************)
RECURSIVE HexToInt(_)
\* int(hex_str, 16)
HexToInt(hex_str) ==
    IF hex_str = <<>> THEN 0
    ELSE HexToInt(SubSeq(hex_str, 1, Len(hex_str) - 1)) * 16 + hex_str[Len(hex_str)]

RECURSIVE Bin(_)
\* bin(n)[2:]: the binary digits of n without leading zeros ("0" for 0)
Bin(n) == IF n < 2 THEN <<n>> ELSE Append(Bin(n \div 2), n % 2)

\* s.zfill(width): zeros on the left up to width, s itself when it is longer
ZFill(s, width) ==
    IF Len(s) >= width THEN s ELSE [i \in 1..(width - Len(s)) |-> 0] \o s

\* hex_to_bin without the zfill
hex_to_bin_NoPad(hex_str) == Bin(HexToInt(hex_str))

\* benchmark.py:171-173
hex_to_bin(hex_str) == ZFill(Bin(HexToInt(hex_str)), Len(hex_str) * 4)

\* sum(b1 != b2 for b1, b2 in zip(bin1, bin2)): zip stops at the shorter one
hamming_distance(bin1, bin2) ==
    Cardinality({i \in 1..Min(Len(bin1), Len(bin2)) : bin1[i] # bin2[i]})

\* round(x, 2) of the exact value num / den * 100, in hundredths of a percent
\* (ties go to the even neighbour)
RoundPct(num, den) ==
    LET q == (num * 10000) \div den
        r == (num * 10000) % den
    IN  IF 2 * r > den \/ (2 * r = den /\ q % 2 = 1) THEN q + 1 ELSE q

\* modified = bytearray(data); modified[-1] ^= 0x01
FlipLastBit(data) ==
    LET n == Len(data)
    IN  [data EXCEPT ![n] = IF data[n] % 2 = 0 THEN data[n] + 1 ELSE data[n] - 1]

NoAvalanche == [pct |-> -1, diff |-> -1, total |-> -1, bin1 |-> <<>>, bin2 |-> <<>>]

\* the outcome of avalanche_test, with the number of digests computed before
\* it returned or raised
AvalancheOutcome(exc, value, touched, digests) ==
    [exc |-> exc, value |-> value, touched |-> touched, digests |-> digests]

avalanche_test(file, algorithm, fault) ==
    IF ~file.exists \/ fault
    THEN AvalancheOutcome("OSError", NoAvalanche, {"open"}, 0)
    ELSE IF algorithm \notin ALGORITHMS
    THEN AvalancheOutcome("KeyError", NoAvalanche, {"open", "read"}, 0)
    ELSE IF file.data = <<>>
    \* hash_original is computed at line 186, modified[-1] raises at line 189
    THEN AvalancheOutcome("IndexError", NoAvalanche, {"open", "read"}, 1)
    ELSE LET hash_original == compute_hash_bytes(file.data, algorithm).value
             hash_modified == compute_hash_bytes(FlipLastBit(file.data), algorithm).value
             bin1 == hex_to_bin(hash_original)
             bin2 == hex_to_bin(hash_modified)
             diff == hamming_distance(bin1, bin2)
             total == Len(bin1)
         IN  AvalancheOutcome("none",
                 [pct |-> RoundPct(diff, total), diff |-> diff, total |-> total,
                  bin1 |-> bin1, bin2 |-> bin2],
                 {"open", "read"}, 2)

(***************************************************************************)
(* benchmark.py:202-211 get_size_from_filename, and the sort of line 256    *)
(***************************************************************************)
Digits == <<"0", "1", "2", "3", "4", "5", "6", "7", "8", "9">>
IsDigit(c) == \E d \in 1..10 : Digits[d] = c
DigitVal(c) == (CHOOSE d \in 1..10 : Digits[d] = c) - 1

\* c.upper() for the letters the pattern names
Upper(c) ==
    CASE c = "m" -> "M" [] c = "b" -> "B" [] c = "g" -> "G" [] OTHER -> c

RECURSIVE DigitRunEnd(_, _)
\* last index of the digit run that \d+ matches greedily from index i
DigitRunEnd(name, i) ==
    IF i < Len(name) /\ IsDigit(name[i + 1]) THEN DigitRunEnd(name, i + 1) ELSE i

RECURSIVE ToInt(_)
\* int(match.group(1))
ToInt(digits) ==
    IF digits = <<>> THEN 0
    ELSE ToInt(SubSeq(digits, 1, Len(digits) - 1)) * 10 + DigitVal(digits[Len(digits)])

\* whether (\d+)(MB|GB), ignoring case, matches starting at index i
MatchesAt(name, i) ==
    /\ IsDigit(name[i])
    /\ LET j == DigitRunEnd(name, i)
       IN  /\ j + 2 <= Len(name)
           /\ Upper(name[j + 1]) \in {"M", "G"}
           /\ Upper(name[j + 2]) = "B"

get_size_from_filename(filename) ==
    LET starts == {i \in 1..Len(filename) : MatchesAt(filename, i)}
    IN  IF starts = {} THEN 0
        ELSE LET i == CHOOSE k \in starts : \A m \in starts : k <= m
                 j == DigitRunEnd(filename, i)
                 size == ToInt(SubSeq(filename, i, j))
                 unit == <<Upper(filename[j + 1]), Upper(filename[j + 2])>>
             IN  IF unit = <<"G", "B">> THEN size * 1024 ELSE size

RECURSIVE InsertByKey(_, _)
\* x placed after every element whose key is not larger (the sort is stable)
InsertByKey(sorted, x) ==
    IF sorted = <<>> THEN <<x>>
    ELSE IF get_size_from_filename(Head(sorted)) <= get_size_from_filename(x)
    THEN <<Head(sorted)>> \o InsertByKey(Tail(sorted), x)
    ELSE <<x>> \o sorted

\* the sort left out
SortBySize_None(files) == files

RECURSIVE SortBySize(_)
\* files.sort(key=get_size_from_filename)
SortBySize(files) ==
    IF files = <<>> THEN <<>>
    ELSE InsertByKey(SortBySize(SubSeq(files, 1, Len(files) - 1)), files[Len(files)])

(***************************************************************************)
(* The file system the programs run on                                      *)
(***************************************************************************)
test_1MB   == <<"t", "e", "s", "t", "_", "1", "M", "B", ".", "d", "a", "t">>
test_10MB  == <<"t", "e", "s", "t", "_", "1", "0", "M", "B", ".", "d", "a", "t">>
test_1GB   == <<"t", "e", "s", "t", "_", "1", "G", "B", ".", "d", "a", "t">>
notes_txt  == <<"n", "o", "t", "e", "s", ".", "t", "x", "t">>
r2_1024mb  == <<"r", "2", "_", "1", "0", "2", "4", "m", "b">>

\* the files a dataset directory may hold
FileNames == {test_1MB, test_10MB, test_1GB, notes_txt, r2_1024mb}

\* the content of each of them (notes.txt is a zero-length file)
Content(name) ==
    CASE name = test_1MB  -> <<1, 0, 1>>
      [] name = test_10MB -> <<0>>
      [] name = test_1GB  -> <<0, 1>>
      [] name = notes_txt -> <<>>
      [] name = r2_1024mb -> <<1, 1, 0>>

\* what os.listdir may return: the files present, in any order
Listings ==
    {l \in SeqsUpTo(FileNames, MaxFiles) :
        \A i, j \in 1..Len(l) : i # j => l[i] # l[j]}

\* an output artifact: whether it exists, the run that wrote it (0: an
\* earlier run, 1: this run), and the rows (or chart files) it holds
Absent == [exists |-> FALSE, run |-> 0, rows |-> <<>>]
Earlier == [exists |-> TRUE, run |-> 0, rows |-> <<>>]
Written(rows) == [exists |-> TRUE, run |-> 1, rows |-> rows]

\* the output artifacts left by what ran before
Snapshots ==
    { [specs_file |-> Absent,  summary_csv |-> Absent,  raw_csv |-> Absent,  chart_dir |-> Absent],
      [specs_file |-> Earlier, summary_csv |-> Absent,  raw_csv |-> Absent,  chart_dir |-> Absent],
      [specs_file |-> Earlier, summary_csv |-> Earlier, raw_csv |-> Earlier, chart_dir |-> Absent],
      [specs_file |-> Earlier, summary_csv |-> Earlier, raw_csv |-> Earlier, chart_dir |-> Earlier] }

ChartFiles == <<"01_throughput_comparison.png", "02_efficiency_matrix.png",
                "03_avalanche_consistency.png">>

(***************************************************************************)
(* State                                                                    *)
(***************************************************************************)
VARIABLES
    entry,              \* the script or function that was started
    pc,                 \* where control is
    dataset_exists,     \* whether DATASET_DIR exists
    listing,            \* os.listdir(DATASET_DIR)
    specs_file,         \* SPECS_FILE
    summary_csv,        \* OUTPUT_CSV / INPUT_CSV
    raw_csv,            \* hasil_benchmark_raw.csv
    chart_dir,          \* OUTPUT_DIR of visualize.py
    fs0,                \* the file system as the run found it
    faults,             \* I/O errors raised so far
    files,              \* main: the sorted file list
    fi,                 \* main: index of the current file in files
    ai,                 \* main: index of the current algorithm
    test_number,        \* main: test_number
    all_results,        \* main: all_results
    all_raw_iterations, \* main: all_raw_iterations
    errors,             \* main: the [ERROR] lines printed by the handler
    filepath,           \* the file at the filepath argument
    algorithm,          \* the algorithm argument
    warm_done,          \* run_benchmark: warm-up iterations completed
    iteration_results,  \* run_benchmark: iteration_results
    hash_calls,         \* run_benchmark: compute_hash calls made
    tracing,            \* whether tracemalloc is tracing
    phases,             \* run_benchmark: the phases entered, in order
    result,             \* what run_benchmark returned
    ret,                \* what a directly called function gave back
    exc,                \* the exception propagating ("none": none)
    touched             \* file-system operations of the current call

fsvars == <<dataset_exists, listing, specs_file, summary_csv, raw_csv, chart_dir, fs0>>
mainvars == <<files, fi, ai, test_number, all_results, all_raw_iterations, errors>>
argvars == <<filepath, algorithm>>
rbvars == <<warm_done, iteration_results, hash_calls, tracing, phases, result>>
vars == <<entry, pc, fsvars, faults, mainvars, argvars, rbvars, ret, exc, touched>>

FileSystem ==
    [dataset_exists |-> dataset_exists, listing |-> listing,
     specs_file |-> specs_file, summary_csv |-> summary_csv,
     raw_csv |-> raw_csv, chart_dir |-> chart_dir]

NoResult == [iterations |-> <<>>]
Pending == [exc |-> "pending"]

\* the I/O of one call either works or, while the environment still has
\* errors to raise, fails
FaultChoices == IF faults < MaxFaults THEN BOOLEAN ELSE {FALSE}
Count(fault) == IF fault THEN faults + 1 ELSE faults

InitProgram ==
    /\ faults = 0
    /\ files = <<>> /\ fi = 0 /\ ai = 0 /\ test_number = 0
    /\ all_results = <<>> /\ all_raw_iterations = <<>> /\ errors = <<>>
    /\ warm_done = 0 /\ iteration_results = <<>> /\ hash_calls = 0
    /\ tracing = FALSE /\ phases = <<>> /\ result = NoResult
    /\ ret = Pending /\ exc = "none" /\ touched = {}

InitFileSystem ==
    /\ \E d \in BOOLEAN :
         /\ dataset_exists = d
         /\ listing \in (IF d THEN Listings ELSE {<<>>})
    /\ \E s \in Snapshots :
         /\ specs_file = s.specs_file /\ summary_csv = s.summary_csv
         /\ raw_csv = s.raw_csv /\ chart_dir = s.chart_dir
    /\ fs0 = FileSystem

\* one of the two scripts is started
Init ==
    /\ entry \in {"benchmark.main", "visualize.main"}
    /\ pc = "start"
    /\ InitFileSystem
    /\ filepath = MissingFile /\ algorithm = UnknownAlgorithm
    /\ InitProgram

(***************************************************************************)
(* benchmark.py:105-167 run_benchmark                                       *)
(***************************************************************************)
\* an exception leaves the function
Raise(e) == /\ exc' = e /\ pc' = "raised"

\* lines 111-114: the size query and the empty sample lists
RbStart ==
    /\ pc = "run_benchmark"
    /\ touched' = touched \cup {"getsize"}
    /\ warm_done' = 0 /\ iteration_results' = <<>> /\ hash_calls' = 0
    /\ result' = NoResult
    /\ IF ~filepath.exists
       THEN /\ Raise("OSError")
            /\ phases' = <<>>
       ELSE /\ exc' = "none"
            /\ phases' = IF WARMUP_ITERATIONS > 0 THEN <<"WARMUP">> ELSE <<"MEASURING">>
            /\ pc' = IF WARMUP_ITERATIONS > 0 THEN "warmup" ELSE "measure"
    /\ UNCHANGED <<entry, fsvars, faults, mainvars, argvars, tracing, ret>>

\* WarmupIteration that records the warm-up as a sample
WarmupIteration_Recorded ==
    /\ pc = "warmup"
    /\ \E fault \in FaultChoices :
         LET o == compute_hash(filepath, algorithm, fault)
         IN  /\ faults' = Count(fault)
             /\ hash_calls' = hash_calls + 1
             /\ touched' = touched \cup o.touched
             /\ IF o.exc # "none"
                THEN /\ Raise(o.exc)
                     /\ UNCHANGED <<warm_done, phases, iteration_results>>
                ELSE /\ warm_done' = warm_done + 1
                     /\ exc' = "none"
                     /\ iteration_results' =
                            Append(iteration_results,
                                   [iteration |-> Len(iteration_results) + 1])
                     /\ IF warm_done + 1 = WARMUP_ITERATIONS
                        THEN /\ pc' = "measure"
                             /\ phases' = Append(phases, "MEASURING")
                        ELSE /\ pc' = "warmup"
                             /\ UNCHANGED phases
    /\ UNCHANGED <<entry, fsvars, mainvars, argvars, tracing, result, ret>>

\* lines 117-118: one warm-up iteration, nothing recorded
WarmupIteration ==
    /\ pc = "warmup"
    /\ \E fault \in FaultChoices :
         LET o == compute_hash(filepath, algorithm, fault)
         IN  /\ faults' = Count(fault)
             /\ hash_calls' = hash_calls + 1
             /\ touched' = touched \cup o.touched
             /\ IF o.exc # "none"
                THEN /\ Raise(o.exc)
                     /\ UNCHANGED <<warm_done, phases>>
                ELSE /\ warm_done' = warm_done + 1
                     /\ exc' = "none"
                     /\ IF warm_done + 1 = WARMUP_ITERATIONS
                        THEN /\ pc' = "measure"
                             /\ phases' = Append(phases, "MEASURING")
                        ELSE /\ pc' = "warmup"
                             /\ UNCHANGED phases
    /\ UNCHANGED <<entry, fsvars, mainvars, argvars, iteration_results, tracing,
                   result, ret>>

\* lines 122-145: one measured iteration; tracemalloc.start() comes before
\* the digest and tracemalloc.stop() after it, outside any try/finally
MeasureIteration ==
    /\ pc = "measure"
    /\ \E fault \in FaultChoices :
         LET o == compute_hash(filepath, algorithm, fault)
         IN  /\ faults' = Count(fault)
             /\ hash_calls' = hash_calls + 1
             /\ touched' = touched \cup o.touched
             /\ IF o.exc # "none"
                THEN /\ Raise(o.exc)
                     /\ tracing' = TRUE
                     /\ UNCHANGED <<iteration_results, phases>>
                ELSE /\ tracing' = FALSE
                     /\ exc' = "none"
                     /\ iteration_results' =
                            Append(iteration_results,
                                   [iteration |-> Len(iteration_results) + 1])
                     /\ IF Len(iteration_results) + 1 = BENCHMARK_ITERATIONS
                        THEN /\ pc' = "reduce"
                             /\ phases' = Append(phases, "REDUCED")
                        ELSE /\ pc' = "measure"
                             /\ UNCHANGED phases
    /\ UNCHANGED <<entry, fsvars, mainvars, argvars, warm_done, result, ret>>

\* lines 147-167: the reduction and the return
Reduce ==
    /\ pc = "reduce"
    /\ result' = [iterations |-> iteration_results]
    /\ pc' = "returned"
    /\ UNCHANGED <<entry, fsvars, faults, mainvars, argvars, warm_done,
                   iteration_results, hash_calls, tracing, phases, ret, exc, touched>>

(***************************************************************************)
(* benchmark.py:226-400 main                                                *)
(***************************************************************************)
\* lines 236, 65-84: print_and_save_specs rewrites SPECS_FILE
SaveSpecs ==
    /\ entry = "benchmark.main" /\ pc = "start"
    /\ specs_file' = Written(<<>>)
    /\ pc' = "check_dataset"
    /\ UNCHANGED <<entry, dataset_exists, listing, summary_csv, raw_csv, chart_dir,
                   fs0, faults, mainvars, argvars, rbvars, ret, exc, touched>>

\* lines 243-247: no dataset directory: it is created, and the run stops
DatasetMissing ==
    /\ pc = "check_dataset" /\ ~dataset_exists
    /\ dataset_exists' = TRUE
    /\ pc' = "stopped"
    /\ UNCHANGED <<entry, listing, specs_file, summary_csv, raw_csv, chart_dir,
                   fs0, faults, mainvars, argvars, rbvars, ret, exc, touched>>

\* lines 249-254: the directory holds no file: the run stops
DatasetEmpty ==
    /\ pc = "check_dataset" /\ dataset_exists /\ listing = <<>>
    /\ pc' = "stopped"
    /\ UNCHANGED <<entry, fsvars, faults, mainvars, argvars, rbvars, ret, exc, touched>>

\* PrepareDataset that already opens OUTPUT_CSV for writing
PrepareDataset_OpensCsv ==
    /\ pc = "check_dataset" /\ dataset_exists /\ listing # <<>>
    /\ files' = SortBySize(listing)
    /\ all_results' = <<>> /\ all_raw_iterations' = <<>> /\ test_number' = 0
    /\ fi' = 1 /\ ai' = 1
    /\ summary_csv' = Written(<<>>)
    /\ pc' = "pair"
    /\ UNCHANGED <<entry, dataset_exists, listing, specs_file, raw_csv, chart_dir,
                   fs0, faults, errors, argvars, rbvars, ret, exc, touched>>

\* lines 249-276: the files are listed and sorted, the accumulators emptied
PrepareDataset ==
    /\ pc = "check_dataset" /\ dataset_exists /\ listing # <<>>
    /\ files' = SortBySize(listing)
    /\ all_results' = <<>> /\ all_raw_iterations' = <<>> /\ test_number' = 0
    /\ fi' = 1 /\ ai' = 1
    /\ pc' = "pair"
    /\ UNCHANGED <<entry, fsvars, faults, errors, argvars, rbvars, ret, exc, touched>>

\* lines 278-293: the next (file, algorithm) pair enters the try block and
\* calls run_benchmark
BeginPair ==
    /\ pc = "pair"
    /\ test_number' = test_number + 1
    /\ filepath' = File(Content(files[fi]))
    /\ algorithm' = AlgoOrder[ai]
    /\ touched' = {}
    /\ pc' = "run_benchmark"
    /\ UNCHANGED <<entry, fsvars, faults, files, fi, ai, all_results,
                   all_raw_iterations, errors, rbvars, ret, exc>>

\* the loops of lines 278 and 286 move on
Advance ==
    IF ai < Len(AlgoOrder)
    THEN /\ ai' = ai + 1 /\ fi' = fi /\ pc' = "pair"
    ELSE IF fi < Len(files)
    THEN /\ ai' = 1 /\ fi' = fi + 1 /\ pc' = "pair"
    ELSE /\ ai' = ai /\ fi' = fi /\ pc' = "summary"

\* lines 315-325: the summary row of the pair
SummaryRow(avalanche) ==
    [Filename |-> files[fi], Algorithm |-> algorithm, Avalanche_Pct |-> avalanche]

\* lines 328-338: the raw rows of the pair
RawRows ==
    [i \in 1..Len(result.iterations) |->
        [Filename |-> files[fi], Algorithm |-> algorithm,
         Iteration |-> result.iterations[i].iteration]]

\* AvalancheAndRecord with the raw rows appended before the avalanche test
AvalancheAndRecord_RawFirst ==
    /\ entry = "benchmark.main" /\ pc = "returned"
    /\ \E fault \in FaultChoices :
         LET o == avalanche_test(filepath, algorithm, fault)
         IN  /\ faults' = Count(fault)
             /\ touched' = touched \cup o.touched
             /\ all_raw_iterations' = all_raw_iterations \o RawRows
             /\ IF o.exc # "none"
                THEN /\ Raise(o.exc)
                     /\ UNCHANGED <<fi, ai, all_results>>
                ELSE /\ all_results' = Append(all_results, SummaryRow(o.value.pct))
                     /\ exc' = "none"
                     /\ Advance
    /\ UNCHANGED <<entry, fsvars, files, test_number, errors, argvars, rbvars, ret>>

\* lines 295-338: run_benchmark returned; the avalanche test runs, then the
\* rows of the pair are appended
AvalancheAndRecord ==
    /\ entry = "benchmark.main" /\ pc = "returned"
    /\ \E fault \in FaultChoices :
         LET o == avalanche_test(filepath, algorithm, fault)
         IN  /\ faults' = Count(fault)
             /\ touched' = touched \cup o.touched
             /\ IF o.exc # "none"
                THEN /\ Raise(o.exc)
                     /\ UNCHANGED <<fi, ai, all_results, all_raw_iterations>>
                ELSE /\ all_results' = Append(all_results, SummaryRow(o.value.pct))
                     /\ all_raw_iterations' = all_raw_iterations \o RawRows
                     /\ exc' = "none"
                     /\ Advance
    /\ UNCHANGED <<entry, fsvars, files, test_number, errors, argvars, rbvars, ret>>

\* HandleException without the try block: the exception leaves main
HandleException_Propagate ==
    /\ entry = "benchmark.main" /\ pc = "raised"
    /\ pc' = "crashed"
    /\ UNCHANGED <<entry, fsvars, faults, mainvars, argvars, rbvars, ret, exc, touched>>

\* lines 340-341: the handler prints the error; the loop moves on
HandleException ==
    /\ entry = "benchmark.main" /\ pc = "raised"
    /\ errors' = Append(errors, [Filename |-> files[fi], Algorithm |-> algorithm,
                                 error |-> exc])
    /\ exc' = "none"
    /\ Advance
    /\ UNCHANGED <<entry, fsvars, faults, files, test_number, all_results,
                   all_raw_iterations, argvars, rbvars, ret, touched>>

\* lines 343-381: the summary table is printed and OUTPUT_CSV written
ExportSummary ==
    /\ pc = "summary"
    /\ summary_csv' = Written(all_results)
    /\ pc' = "export_raw"
    /\ UNCHANGED <<entry, dataset_exists, listing, specs_file, raw_csv, chart_dir,
                   fs0, faults, mainvars, argvars, rbvars, ret, exc, touched>>

\* lines 383-400: the raw-iteration CSV is written
ExportRaw ==
    /\ pc = "export_raw"
    /\ raw_csv' = Written(all_raw_iterations)
    /\ pc' = "done"
    /\ UNCHANGED <<entry, dataset_exists, listing, specs_file, summary_csv, chart_dir,
                   fs0, faults, mainvars, argvars, rbvars, ret, exc, touched>>

(***************************************************************************)
(* visualize.py:208-241 main                                                *)
(***************************************************************************)
\* lines 215-218: no summary CSV: the run stops
VizInputMissing ==
    /\ entry = "visualize.main" /\ pc = "start"
    /\ ~summary_csv.exists
    /\ pc' = "stopped"
    /\ UNCHANGED <<entry, fsvars, faults, mainvars, argvars, rbvars, ret, exc, touched>>

\* lines 221-229: the chart directory is made if absent, the data loaded
VizPrepare ==
    /\ entry = "visualize.main" /\ pc = "start"
    /\ summary_csv.exists
    /\ chart_dir' = [chart_dir EXCEPT !.exists = TRUE]
    /\ pc' = "plot"
    /\ UNCHANGED <<entry, dataset_exists, listing, specs_file, summary_csv, raw_csv,
                   fs0, faults, mainvars, argvars, rbvars, ret, exc, touched>>

\* lines 234-241: the three charts are saved
VizPlot ==
    /\ pc = "plot"
    /\ chart_dir' = Written(ChartFiles)
    /\ pc' = "done"
    /\ UNCHANGED <<entry, dataset_exists, listing, specs_file, summary_csv, raw_csv,
                   fs0, faults, mainvars, argvars, rbvars, ret, exc, touched>>

Next ==
    \/ SaveSpecs \/ DatasetMissing \/ DatasetEmpty \/ PrepareDataset
    \/ BeginPair \/ RbStart \/ WarmupIteration \/ MeasureIteration \/ Reduce
    \/ AvalancheAndRecord \/ HandleException
    \/ ExportSummary \/ ExportRaw
    \/ VizInputMissing \/ VizPrepare \/ VizPlot

Spec == Init /\ [][Next]_vars

(***************************************************************************)
(* The functions called directly, on any file and any algorithm identifier  *)
(***************************************************************************)
Functions == {"run_benchmark", "compute_hash", "main.compute_hash", "avalanche_test"}

InitCall ==
    /\ entry \in Functions
    /\ pc = IF entry = "run_benchmark" THEN "run_benchmark" ELSE "call"
    /\ dataset_exists = TRUE /\ listing = <<>>
    /\ specs_file = Absent /\ summary_csv = Absent
    /\ raw_csv = Absent /\ chart_dir = Absent
    /\ fs0 = FileSystem
    /\ filepath \in {MissingFile} \cup {File(d) : d \in SeqsUpTo(Byte, MaxLen)}
    /\ algorithm \in AlgorithmIds
    /\ InitProgram

Return(o) ==
    /\ ret' = o
    /\ exc' = o.exc
    /\ touched' = o.touched
    /\ pc' = IF o.exc = "none" THEN "returned" ELSE "raised"

CallComputeHash ==
    /\ entry = "compute_hash" /\ pc = "call"
    /\ \E fault \in FaultChoices :
         /\ faults' = Count(fault)
         /\ Return(compute_hash(filepath, algorithm, fault))
    /\ UNCHANGED <<entry, fsvars, mainvars, argvars, rbvars>>

CallMainComputeHash ==
    /\ entry = "main.compute_hash" /\ pc = "call"
    /\ \E fault \in FaultChoices :
         /\ faults' = Count(fault)
         /\ Return(main_compute_hash(filepath, algorithm, fault))
    /\ UNCHANGED <<entry, fsvars, mainvars, argvars, rbvars>>

CallAvalancheTest ==
    /\ entry = "avalanche_test" /\ pc = "call"
    /\ \E fault \in FaultChoices :
         /\ faults' = Count(fault)
         /\ Return(avalanche_test(filepath, algorithm, fault))
    /\ UNCHANGED <<entry, fsvars, mainvars, argvars, rbvars>>

NextCall ==
    \/ CallComputeHash \/ CallMainComputeHash \/ CallAvalancheTest
    \/ RbStart \/ WarmupIteration \/ MeasureIteration \/ Reduce

SpecCall == InitCall /\ [][NextCall]_vars

(***************************************************************************)
(* benchmark.py:147-167 the reduction step of run_benchmark, on the values  *)
(* of the samples.  A float is modelled by the exact rational it stands     *)
(* for: [num, den] in lowest terms with den > 0.  The elapsed times are     *)
(* differences of a monotonic clock, so they are never negative.            *)
(***************************************************************************)
Abs(x) == IF x < 0 THEN 0 - x ELSE x

RECURSIVE GCD(_, _)
GCD(a, b) == IF b = 0 THEN a ELSE GCD(b, a % b)

\* the rational n / d (d # 0) in lowest terms
Rat(n, d) ==
    LET g == GCD(Abs(n), Abs(d))
        s == IF d < 0 THEN 0 - 1 ELSE 1
    IN  [num |-> s * (n \div g), den |-> s * (d \div g)]

Zero == Rat(0, 1)

RAdd(a, b) ==
    LET g == GCD(a.den, b.den)
    IN  Rat(a.num * (b.den \div g) + b.num * (a.den \div g), (a.den \div g) * b.den)

RSub(a, b) == RAdd(a, [num |-> 0 - b.num, den |-> b.den])

RMul(a, b) ==
    LET g1 == GCD(Abs(a.num), b.den)
        g2 == GCD(Abs(b.num), a.den)
    IN  Rat((a.num \div g1) * (b.num \div g2), (a.den \div g2) * (b.den \div g1))

\* a / b of two floats: ZeroDivisionError when b is 0
TrueDiv(a, b) ==
    IF b.num = 0
    THEN Outcome("ZeroDivisionError", Zero, {}, <<>>)
    ELSE Outcome("none", RMul(a, Rat(b.den, b.num)), {}, <<>>)

RECURSIVE RSum(_)
RSum(data) == IF data = <<>> THEN Zero ELSE RAdd(Head(data), RSum(Tail(data)))

\* the square root of a rational, kept as the root of its argument
Sqrt(v) == [sqrt_of |-> v]

\* statistics.mean: StatisticsError on no data
mean(data) ==
    IF Len(data) < 1
    THEN Outcome("StatisticsError", Zero, {}, <<>>)
    ELSE Outcome("none", RMul(RSum(data), Rat(1, Len(data))), {}, <<>>)

\* statistics.stdev: the root of the sample variance; StatisticsError on
\* fewer than two data points
stdev(data) ==
    IF Len(data) < 2
    THEN Outcome("StatisticsError", Zero, {}, <<>>)
    ELSE LET m == mean(data).value
             sq == [i \in 1..Len(data) |->
                       RMul(RSub(data[i], m), RSub(data[i], m))]
         IN  Outcome("none", Sqrt(RMul(RSum(sq), Rat(1, Len(data) - 1))), {}, <<>>)

\* std_time computed by stdev whatever the number of samples
StdTime_Unguarded(times_sec) == stdev(times_sec)

\* line 151: std_time = stdev(times_sec) if len(times_sec) > 1 else 0
StdTime(times_sec) ==
    IF Len(times_sec) > 1 THEN stdev(times_sec) ELSE Outcome("none", Zero, {}, <<>>)

\* throughput computed by the division whatever the mean time
Throughput_Unguarded(file_size, mean_time) ==
    TrueDiv(Rat(file_size, BYTES_PER_MIB), mean_time)

\* lines 157-158: file_size_mb / mean_time if mean_time > 0 else 0
Throughput(file_size, mean_time) ==
    LET file_size_mb == Rat(file_size, BYTES_PER_MIB)
    IN  IF mean_time.num > 0
        THEN TrueDiv(file_size_mb, mean_time)
        ELSE Outcome("none", Zero, {}, <<>>)

\* line 124-138: times_ns, read off the samples
TimesNs(samples) == [i \in 1..Len(samples) |-> samples[i].elapsed_ns]

\* lines 147-167: what the reduction gives back for a file size and the
\* samples collected (the means of memory and CPU are taken over lists of
\* the same length as times_sec, after the mean of times_sec)
Reduction(file_size, samples) ==
    LET times_ns == TimesNs(samples)
        times_sec == [i \in 1..Len(times_ns) |-> Rat(times_ns[i], NS_PER_SEC)]
        mean_time == mean(times_sec)
        std_time == StdTime(times_sec)
        throughput == Throughput(file_size, mean_time.value)
    IN  IF mean_time.exc # "none" THEN Outcome(mean_time.exc, NoResult, {}, <<>>)
        ELSE IF std_time.exc # "none" THEN Outcome(std_time.exc, NoResult, {}, <<>>)
        ELSE IF throughput.exc # "none" THEN Outcome(throughput.exc, NoResult, {}, <<>>)
        ELSE Outcome("none",
                     [iterations |-> samples,
                      mean_time |-> mean_time.value,
                      std_time |-> std_time.value,
                      throughput |-> throughput.value], {}, <<>>)

\* the sample sets of n samples: iteration i + 1 with its elapsed time
SampleSets(n) ==
    {[i \in 1..n |-> [iteration |-> i, elapsed_ns |-> t[i]]] : t \in [1..n -> 0..MaxNs]}

\* run_benchmark has measured: the file exists, the warm-up and the measured
\* iterations are over, the samples are any the clock can have given
InitReduce ==
    /\ entry = "run_benchmark"
    /\ pc = "reduce"
    /\ dataset_exists = TRUE /\ listing = <<>>
    /\ specs_file = Absent /\ summary_csv = Absent
    /\ raw_csv = Absent /\ chart_dir = Absent
    /\ fs0 = FileSystem
    /\ filepath \in {File(d) : d \in SeqsUpTo(Byte, MaxLen)}
    /\ algorithm \in ALGORITHMS
    /\ faults = 0
    /\ files = <<>> /\ fi = 0 /\ ai = 0 /\ test_number = 0
    /\ all_results = <<>> /\ all_raw_iterations = <<>> /\ errors = <<>>
    /\ \E n \in 0..MaxSamples :
         /\ iteration_results \in SampleSets(n)
         /\ hash_calls = WARMUP_ITERATIONS + n
    /\ warm_done = WARMUP_ITERATIONS
    /\ tracing = FALSE
    /\ phases = <<"WARMUP", "MEASURING", "REDUCED">>
    /\ result = NoResult
    /\ ret = Pending /\ exc = "none" /\ touched = {"getsize", "open", "read"}

\* lines 147-167: the reduction of the samples and the return
ReduceSamples ==
    /\ pc = "reduce"
    /\ LET o == Reduction(Len(filepath.data), iteration_results)
       IN  /\ result' = o.value
           /\ exc' = o.exc
           /\ pc' = IF o.exc = "none" THEN "returned" ELSE "raised"
    /\ UNCHANGED <<entry, fsvars, faults, mainvars, argvars, warm_done,
                   iteration_results, hash_calls, tracing, phases, ret, touched>>

NextReduce == ReduceSamples

SpecReduce == InitReduce /\ [][NextReduce]_vars

(***************************************************************************)
(* Properties                                                               *)
(***************************************************************************)
InMain == entry = "benchmark.main"

\* the position of a pair in the iteration order of lines 278 and 286
PairIndex(f, a) == (f - 1) * Len(AlgoOrder) + a
TotalTests == Len(files) * Len(AlgoOrder)

\* the position of the row or error line of a pair in the iteration order
RowIndex(r) ==
    PairIndex(CHOOSE f \in 1..Len(files) : files[f] = r.Filename,
              CHOOSE a \in 1..Len(AlgoOrder) : AlgoOrder[a] = r.Algorithm)

\* the stages of one pair, between the start of its try block and its end
PairStages == {"run_benchmark", "warmup", "measure", "reduce", "returned", "raised"}

\* how far a run of benchmark.main has come
Progress ==
    LET stage ==
          CASE pc = "start"         -> 0
            [] pc = "check_dataset" -> 1
            [] pc = "run_benchmark" -> 2
            [] pc = "warmup"        -> 3 + warm_done
            [] pc = "measure"       -> 3 + WARMUP_ITERATIONS + Len(iteration_results)
            [] pc = "reduce"        -> 4 + WARMUP_ITERATIONS + BENCHMARK_ITERATIONS
            [] pc = "returned"      -> 5 + WARMUP_ITERATIONS + BENCHMARK_ITERATIONS
            [] pc = "raised"        -> 6 + WARMUP_ITERATIONS + BENCHMARK_ITERATIONS
            [] pc = "pair"          -> 7 + WARMUP_ITERATIONS + BENCHMARK_ITERATIONS
            [] pc = "summary"       -> 8 + WARMUP_ITERATIONS + BENCHMARK_ITERATIONS
            [] pc = "export_raw"    -> 9 + WARMUP_ITERATIONS + BENCHMARK_ITERATIONS
            [] OTHER                -> 10 + WARMUP_ITERATIONS + BENCHMARK_ITERATIONS
    IN  test_number * (11 + WARMUP_ITERATIONS + BENCHMARK_ITERATIONS) + stage

\* C1, state part: the pairs are begun once each, in iteration order; every
\* pair that ended left either one summary row or one error line, never
\* both and never two; the pairs are all done when the export stage begins.
C1_EachPairOnce ==
    InMain =>
      /\ pc \in PairStages => test_number = PairIndex(fi, ai)
      /\ pc = "pair" => test_number = PairIndex(fi, ai) - 1
      /\ pc \in PairStages =>
           Len(all_results) + Len(errors) = test_number - 1
      /\ pc \in {"pair", "summary", "export_raw", "done"} =>
           Len(all_results) + Len(errors) = test_number
      /\ pc \in {"summary", "export_raw", "done"} => test_number = TotalTests
      /\ \A i \in 1..Len(errors) : \A j \in 1..Len(errors) :
           i < j => RowIndex(errors[i]) < RowIndex(errors[j])

\* C1, step part: a step taken while an exception propagates is the
\* handler's: it reports the error, adds no row, and moves to the pair that
\* follows in iteration order (or to the export stage after the last
\* pair); and every step of the run brings it further.
C1_HandlerStep ==
    /\ (InMain /\ pc = "raised") =>
         /\ errors' = Append(errors, [Filename |-> files[fi],
                                      Algorithm |-> algorithm, error |-> exc])
         /\ all_results' = all_results
         /\ all_raw_iterations' = all_raw_iterations
         /\ IF PairIndex(fi, ai) < TotalTests
            THEN pc' = "pair" /\ PairIndex(fi', ai') = PairIndex(fi, ai) + 1
            ELSE pc' = "summary"
    /\ InMain => Progress' > Progress

\* C1: an exception raised while a pair is processed (warm-up, measured
\* iteration or avalanche test) aborts that pair only: it is reported,
\* the pair is not retried, every later pair is still processed and the
\* run reaches the export stage.
C1_Theorem == [](C1_EachPairOnce) /\ [][C1_HandlerStep]_vars

\* C1 witness: a finished run in which a pair failed and a later pair
\* produced its row
C1_Witness ==
    /\ InMain /\ pc = "done"
    /\ \E i \in 1..Len(errors) : \E j \in 1..Len(all_results) :
         /\ errors[i].error = "OSError"
         /\ RowIndex(errors[i]) < RowIndex(all_results[j])

\* C2: a result of run_benchmark holds BENCHMARK_ITERATIONS samples numbered
\* 1..BENCHMARK_ITERATIONS; the raw accumulator always holds exactly that
\* many rows, numbered the same way, for each summary row and in the same
\* order; a pair that failed has no summary row and no raw row.
C2_Theorem ==
    /\ pc = "returned" /\ entry \in {"benchmark.main", "run_benchmark"} =>
         /\ Len(result.iterations) = BENCHMARK_ITERATIONS
         /\ \A i \in 1..Len(result.iterations) : result.iterations[i].iteration = i
    /\ Len(all_raw_iterations) = BENCHMARK_ITERATIONS * Len(all_results)
    /\ \A k \in 1..Len(all_results) : \A i \in 1..BENCHMARK_ITERATIONS :
         LET raw == all_raw_iterations[(k - 1) * BENCHMARK_ITERATIONS + i]
         IN  /\ raw.Filename = all_results[k].Filename
             /\ raw.Algorithm = all_results[k].Algorithm
             /\ raw.Iteration = i
    /\ \A e \in 1..Len(errors) :
         /\ \A k \in 1..Len(all_results) :
              <<all_results[k].Filename, all_results[k].Algorithm>>
                # <<errors[e].Filename, errors[e].Algorithm>>
         /\ \A k \in 1..Len(all_raw_iterations) :
              <<all_raw_iterations[k].Filename, all_raw_iterations[k].Algorithm>>
                # <<errors[e].Filename, errors[e].Algorithm>>

\* C2 witness: the avalanche test of a pair failed after its measurement
\* had succeeded, a measured iteration of another pair failed part-way,
\* and a third pair was recorded
C2_Witness ==
    /\ InMain /\ pc = "raised" /\ exc = "OSError"
    /\ Len(iteration_results) \in 1..(BENCHMARK_ITERATIONS - 1)
    /\ \E e \in 1..Len(errors) : errors[e].error = "IndexError"
    /\ all_results # <<>>

\* C3 as claimed: avalanche_test on a zero-length file is rejected by a
\* validation error of its own, raised before any digest is computed.
C3_Claim ==
    ( /\ entry = "avalanche_test" /\ pc \in {"returned", "raised"}
      /\ filepath.exists /\ filepath.data = <<>>
      /\ algorithm \in ALGORITHMS
      /\ ret.exc # "OSError" )
    => (ret.exc = "ValueError" /\ ret.digests = 0)

\* C4: for every supported algorithm and every content, compute_hash feeds
\* the hasher blocks of 1..CHUNK_SIZE bytes whose concatenation is the
\* content, and its digest is the digest compute_hash_bytes gives for the
\* whole content, of the algorithm's fixed length.
C4_Theorem ==
    /\ ( /\ entry \in {"compute_hash", "main.compute_hash"} /\ pc = "raised"
         /\ algorithm \in ALGORITHMS /\ filepath.exists ) => exc = "OSError"
    /\ (entry \in {"compute_hash", "main.compute_hash"} /\ pc = "returned") =>
      /\ algorithm \in ALGORITHMS
      /\ Concat(ret.fed) = filepath.data
      /\ \A i \in 1..Len(ret.fed) : Len(ret.fed[i]) \in 1..CHUNK_SIZE
      /\ \A i \in 1..(Len(ret.fed) - 1) : Len(ret.fed[i]) = CHUNK_SIZE
      /\ ret.value = compute_hash_bytes(filepath.data, algorithm).value
      /\ Len(ret.value) = DigestHexLen(algorithm)

\* C4 witness: a content of several blocks whose last block is short
C4_Witness ==
    /\ entry = "compute_hash" /\ pc = "returned"
    /\ Len(ret.fed) >= 2
    /\ Len(filepath.data) % CHUNK_SIZE # 0

\* C5 as claimed: with an unknown algorithm identifier neither run_benchmark
\* nor compute_hash touches the file system, and the call ends with the
\* configuration error.
C5_Claim ==
    (algorithm \notin ALGORITHMS
       /\ entry \in {"run_benchmark", "compute_hash", "main.compute_hash"}) =>
      /\ touched = {}
      /\ pc \in {"run_benchmark", "call", "raised"}
      /\ pc = "raised" => exc \in {"KeyError", "ValueError"}

\* C5 as amended: compute_hash (both) rejects an unknown identifier without
\* touching the file system; run_benchmark first queries the file size,
\* which fails with an I/O error when the file is missing, and the
\* identifier is then rejected by the first compute_hash call, before the
\* file is opened or read and before anything is measured.
C5_Theorem ==
    algorithm \notin ALGORITHMS =>
      /\ entry = "compute_hash" =>
           /\ touched = {}
           /\ pc \in {"call", "raised"}
           /\ pc = "raised" => exc = "KeyError"
      /\ entry = "main.compute_hash" =>
           /\ touched = {}
           /\ pc \in {"call", "raised"}
           /\ pc = "raised" => exc = "ValueError"
      /\ entry = "run_benchmark" =>
           /\ touched \subseteq {"getsize"}
           /\ pc \in {"run_benchmark", "warmup", "raised"}
           /\ pc = "warmup" => hash_calls = 0
           /\ pc = "raised" =>
                /\ touched = {"getsize"}
                /\ exc = IF filepath.exists THEN "KeyError" ELSE "OSError"
                /\ hash_calls = IF filepath.exists THEN 1 ELSE 0
           /\ iteration_results = <<>> /\ ~tracing

\* C5 witness: run_benchmark rejected an unknown identifier after the size
\* query
C5_Witness ==
    /\ entry = "run_benchmark" /\ algorithm \notin ALGORITHMS
    /\ pc = "raised" /\ exc = "KeyError"
    /\ touched = {"getsize"}

\* C6 as claimed: a run that stops because a prerequisite is missing (no
\* dataset directory, no file in it, no summary CSV for the charts) leaves
\* the output artifacts and the file system as it found them.
C6_Claim == pc = "stopped" => FileSystem = fs0

\* the stages of benchmark.main in which pairs are still being processed
Measuring == InMain /\ pc \in PairStages \cup {"pair"}

C7_State ==
    InMain =>
      /\ pc \notin {"export_raw", "done"} => summary_csv = fs0.summary_csv
      /\ pc # "done" => raw_csv = fs0.raw_csv
      /\ pc \in {"export_raw", "done"} =>
           /\ summary_csv = Written(all_results)
           /\ test_number = TotalTests
           /\ Len(all_results) + Len(errors) = TotalTests
      /\ pc = "done" => raw_csv = Written(all_raw_iterations)
      /\ pc # "start" => specs_file = Written(<<>>)
      /\ chart_dir = fs0.chart_dir

\* C7 as amended, step part: an artifact changes in one step only, from
\* what the run found to its complete content.
C7_Step ==
    InMain =>
      /\ summary_csv' # summary_csv =>
           (pc = "summary" /\ summary_csv = fs0.summary_csv
              /\ summary_csv' = Written(all_results) /\ all_results' = all_results)
      /\ raw_csv' # raw_csv =>
           (pc = "export_raw" /\ raw_csv = fs0.raw_csv
              /\ raw_csv' = Written(all_raw_iterations)
              /\ all_raw_iterations' = all_raw_iterations)
      /\ specs_file' # specs_file => (pc = "start" /\ specs_file = fs0.specs_file)

InRunBenchmark == entry \in {"benchmark.main", "run_benchmark"}

\* C8, state part: during WARMUP no sample exists and the digests computed
\* are the warm-ups done; MEASURING begins after exactly WARMUP_ITERATIONS
\* digests and every further digest has appended one sample; the reduction
\* finds exactly BENCHMARK_ITERATIONS samples, numbered in order.
C8_State ==
    InRunBenchmark =>
      /\ pc = "warmup" =>
           /\ phases = <<"WARMUP">>
           /\ warm_done < WARMUP_ITERATIONS
           /\ hash_calls = warm_done
           /\ iteration_results = <<>>
      /\ pc = "measure" =>
           /\ phases = <<"WARMUP", "MEASURING">>
           /\ warm_done = WARMUP_ITERATIONS
           /\ Len(iteration_results) < BENCHMARK_ITERATIONS
           /\ hash_calls = WARMUP_ITERATIONS + Len(iteration_results)
      /\ pc \in {"reduce", "returned"} =>
           /\ phases = <<"WARMUP", "MEASURING", "REDUCED">>
           /\ warm_done = WARMUP_ITERATIONS
           /\ Len(iteration_results) = BENCHMARK_ITERATIONS
           /\ hash_calls = WARMUP_ITERATIONS + BENCHMARK_ITERATIONS
      /\ pc = "returned" => result.iterations = iteration_results
      /\ \A i \in 1..Len(iteration_results) : iteration_results[i].iteration = i

\* C8, step part: within one call the phases only advance; one step
\* computes at most one digest and appends at most one sample, and a sample
\* only with a digest; the result is set by the reduction alone.
C8_Step ==
    InRunBenchmark =>
      /\ pc # "run_benchmark" =>
           /\ (phases' = phases \/ \E ph \in {"MEASURING", "REDUCED"} :
                                       phases' = Append(phases, ph))
           /\ hash_calls' \in {hash_calls, hash_calls + 1}
           /\ \/ iteration_results' = iteration_results
              \/ /\ pc = "measure" /\ hash_calls' = hash_calls + 1
                 /\ iteration_results' =
                      Append(iteration_results, [iteration |-> Len(iteration_results) + 1])
           /\ result' # result => pc = "reduce"
      /\ pc' = "warmup" => pc \in {"run_benchmark", "warmup"}
      /\ pc' = "measure" => pc \in {"warmup", "measure"}
      /\ pc' = "reduce" => pc = "measure"

\* C8: run_benchmark goes WARMUP -> MEASURING -> REDUCED and never back:
\* WARMUP_ITERATIONS digests that record nothing, then
\* BENCHMARK_ITERATIONS digests that each append one sample, then the
\* reduction; one iteration at a time.
C8_Theorem == [](C8_State) /\ [][C8_Step]_vars

\* C8 witness: a call of main has gone through the three phases
C8_Witness ==
    /\ InMain /\ pc = "returned"
    /\ phases = <<"WARMUP", "MEASURING", "REDUCED">>
    /\ hash_calls = WARMUP_ITERATIONS + BENCHMARK_ITERATIONS
    /\ Len(result.iterations) = BENCHMARK_ITERATIONS

\* C9: for a non-empty input and a supported algorithm both bit strings of
\* avalanche_test have 4 bits per hex digit of the digest, the Hamming
\* distance lies in 0..width and the percentage in 0..100 (here in
\* hundredths: 0..10000).
C9_Theorem ==
    /\ ( /\ entry = "avalanche_test" /\ pc = "raised"
         /\ algorithm \in ALGORITHMS /\ filepath.exists
         /\ filepath.data # <<>> ) => exc = "OSError"
    /\ (entry = "avalanche_test" /\ pc = "returned") =>
      /\ filepath.data # <<>> /\ algorithm \in ALGORITHMS
      /\ ret.value.total = 4 * DigestHexLen(algorithm)
      /\ Len(ret.value.bin1) = ret.value.total
      /\ Len(ret.value.bin2) = ret.value.total
      /\ ret.value.bin1 = hex_to_bin(compute_hash_bytes(filepath.data, algorithm).value)
      /\ \A i \in 1..Len(ret.value.bin1) : ret.value.bin1[i] \in {0, 1}
      /\ \A i \in 1..Len(ret.value.bin2) : ret.value.bin2[i] \in {0, 1}
      /\ ret.value.diff \in 0..ret.value.total
      /\ ret.value.diff =
           Cardinality({i \in 1..ret.value.total : ret.value.bin1[i] # ret.value.bin2[i]})
      /\ ret.value.pct \in 0..10000
      /\ 2 * ret.value.pct * ret.value.total - 20000 * ret.value.diff
           \in (0 - ret.value.total)..ret.value.total

\* C9 witness: a digest whose first hex digit is 0 was compared
C9_Witness ==
    /\ entry = "avalanche_test" /\ pc = "returned"
    /\ compute_hash_bytes(filepath.data, algorithm).value[1] = 0
    /\ ret.value.diff > 0

\* whether a list of file names is in non-decreasing order of size (each
\* name against the next)
SizeOrdered(names) ==
    \A i \in 1..(Len(names) - 1) :
        names[i] # names[i + 1] =>
            get_size_from_filename(names[i]) <= get_size_from_filename(names[i + 1])

\* C10: the files are processed and reported in non-decreasing order of
\* the size taken from their names: the first integer directly followed by
\* MB or GB in any case, times 1024 for GB, 0 without a match; so
\* test_1MB.dat (1), test_10MB.dat (10), test_1GB.dat (1024) come in this
\* order.
C10_Theorem ==
    /\ (InMain /\ pc = "check_dataset") =>
         /\ get_size_from_filename(test_1MB) = 1
         /\ get_size_from_filename(test_10MB) = 10
         /\ get_size_from_filename(test_1GB) = 1024
         /\ get_size_from_filename(notes_txt) = 0
         /\ get_size_from_filename(r2_1024mb) = 1024
    /\ (InMain /\ pc \notin {"start", "check_dataset", "stopped"}) =>
         /\ SizeOrdered(files)
         /\ Len(files) = Len(listing)
         /\ {files[i] : i \in 1..Len(files)} = {listing[i] : i \in 1..Len(listing)}
         /\ pc \in PairStages => filepath = File(Content(files[fi]))
         /\ SizeOrdered([k \in 1..Len(all_results) |-> all_results[k].Filename])
         /\ SizeOrdered([k \in 1..Len(errors) |-> errors[k].Filename])

\* C10 witness: a directory listed as test_1GB.dat, test_1MB.dat was
\* reported as test_1MB.dat, test_1GB.dat
C10_Witness ==
    /\ InMain /\ pc = "done"
    /\ listing = <<test_1GB, test_1MB>>
    /\ Len(all_results) = 2 * Len(AlgoOrder)
    /\ all_results[1].Filename = test_1MB
    /\ all_results[Len(all_results)].Filename = test_1GB


RECURSIVE TotalNs(_)
\* the sum of the elapsed times of a sample set, in ns
TotalNs(samples) ==
    IF samples = <<>> THEN 0 ELSE Head(samples).elapsed_ns + TotalNs(Tail(samples))

Reduced == entry = "run_benchmark" /\ pc \in {"returned", "raised"}

\* C11: the reduction step never divides by zero, whatever the file size and
\* the samples; it succeeds on every non-empty sample set; the mean time is
\* the sum of the elapsed times over their number, in seconds; when the mean
\* time is 0 the throughput is exactly 0, and otherwise it is the file size
\* in MiB divided by the mean time (0 for a zero-size file)
C11_Theorem ==
    Reduced =>
        LET n == Len(iteration_results)
            total == TotalNs(iteration_results)
            file_size == Len(filepath.data)
        IN  /\ exc # "ZeroDivisionError"
            /\ n >= 1 => exc = "none"
            /\ exc = "none" =>
                 /\ result.mean_time = Rat(total, n * NS_PER_SEC)
                 /\ result.mean_time = Zero <=> total = 0
                 /\ total = 0 => result.throughput = Zero
                 /\ total > 0 =>
                      /\ result.throughput =
                             Rat(file_size * n * NS_PER_SEC, BYTES_PER_MIB * total)
                      /\ RMul(result.throughput, result.mean_time) =
                             Rat(file_size, BYTES_PER_MIB)
                 /\ file_size = 0 => result.throughput = Zero

\* C11 witness: a non-empty file was hashed in 0 ns every time, and the
\* reduction returned a throughput of 0
C11_Witness ==
    /\ Reduced /\ exc = "none"
    /\ Len(filepath.data) > 0
    /\ Len(iteration_results) >= 2
    /\ TotalNs(iteration_results) = 0
    /\ result.mean_time = Zero
    /\ result.throughput = Zero


RECURSIVE TotalNsSquares(_)
\* the sum of the squares of the elapsed times of a sample set
TotalNsSquares(samples) ==
    IF samples = <<>> THEN 0
    ELSE Head(samples).elapsed_ns * Head(samples).elapsed_ns
             + TotalNsSquares(Tail(samples))

\* C12: a sample set of length 1 is reduced without an exception and with a
\* standard deviation of exactly 0; the sample standard deviation (the root
\* of the sum of squared deviations from the mean over n - 1) is what is
\* reported for two samples or more, and only then
C12_Theorem ==
    Reduced =>
        LET n == Len(iteration_results)
            total == TotalNs(iteration_results)
            squares == TotalNsSquares(iteration_results)
        IN  /\ n = 1 => /\ exc = "none"
                        /\ result.std_time = Zero
            /\ n >= 2 => /\ exc = "none"
                         /\ result.std_time =
                                Sqrt(Rat(n * squares - total * total,
                                         n * (n - 1) * NS_PER_SEC * NS_PER_SEC))
            /\ n = 0 => exc = "StatisticsError"

\* C12 witness: a sample set of one sample with a positive elapsed time was
\* reduced, and the standard deviation reported is 0
C12_Witness ==
    /\ Reduced /\ exc = "none"
    /\ Len(iteration_results) = 1
    /\ iteration_results[1].elapsed_ns > 0
    /\ result.mean_time # Zero
    /\ result.std_time = Zero


\* C13 as claimed: tracemalloc is not tracing when a (file, algorithm) pair
\* begins, nor when a warm-up or a measured iteration begins, nor once the
\* pairs are over: every tracemalloc.start() has met its tracemalloc.stop()
\* before the next pair, also after a pair that an exception aborted in the
\* middle of a measured iteration
C13_Claim ==
    (InMain /\ pc \in {"pair", "run_benchmark", "warmup", "measure",
                       "summary", "export_raw", "done"})
        => ~tracing

=============================================================================
